---- MODULE Spec2Model ----
(***************************************************************************)
(* The ditroff renderer of groff2html.py: the generator                    *)
(* Outputter.__iter__ pulls one token at a time from the tokenizer,        *)
(* dispatches it to the TextOutput method of the same name and yields the  *)
(* fragment the method returns.  One action per handler; a step is one     *)
(* iteration of the for loop of Outputter.__iter__.                        *)
(*                                                                         *)
(* Three specifications share the module.  Spec is the renderer over an    *)
(* abstract token source.  SpecTok is the generator tokenizer() over the   *)
(* characters of a document, one action per branch of its while loop.      *)
(* SpecTwo is two renderer instances stepped in any interleaving, down to  *)
(* the source each one reads.  Each specification leaves the variables of  *)
(* the other two at their idle values.                                     *)
(***************************************************************************)
EXTENDS Integers, Sequences, FiniteSets, TLC

VARIABLES
    initial_typesetter, \* None or <<identifier>>
    resolution,         \* None or <<int>>
    horiz_motion,       \* None or <<int>>
    vert_motion,        \* None or <<int>>
    page,               \* None or <<int>>
    device_font,        \* None or <<font id>>
    font,               \* None or <<int>>
    font_size,          \* None or <<int>>
    horizontal_increment,
    line,
    reset_column,
    status,             \* "running", or how the generator ended
    pulled,             \* tokens the tokenizer has yielded so far
    last,               \* the token pulled last
    frag,               \* the fragment yielded last to the caller
    nfrag,              \* fragments yielded to the caller so far
    \* tokenizer(): its locals, a text is a sequence of one-character strings
    source,             \* the characters of the source, read or not
    fd,                 \* the characters of the source not read yet
    buf,
    state,              \* "CMD" or "ARG"
    cmd,
    args,
    grow,
    pc,                 \* "top": at line 89, "body": at line 96
    outcome,            \* "running", "ended", or the exception raised
    message,            \* the text of the exception raised
    tokens,             \* the tokens yielded so far
    \* two renderer instances
    module_fd,          \* the source the module-level name fd is bound to
    wrapped,            \* per instance, the source its tokenizer reads
    offset,             \* per source, the position of the next read
    received,           \* per instance, the chunks its tokenizer has read
    istate              \* per instance: "new", "iterating", or how it ended

render == <<initial_typesetter, resolution, horiz_motion, vert_motion, page,
            device_font, font, font_size, horizontal_increment, line,
            reset_column>>
vars == <<initial_typesetter, resolution, horiz_motion, vert_motion, page,
          device_font, font, font_size, horizontal_increment, line,
          reset_column, status, pulled, last, frag, nfrag>>

tokvars == <<source, fd, buf, state, cmd, args, grow, pc, outcome, message,
             tokens>>
twovars == <<module_fd, wrapped, offset, received, istate>>

----------------------------------------------------------------------------
(* Bounds of the exploration. *)
MaxTokens == 5

(* The argument values the tokens of a run are drawn from. *)
TextArgs == {"Hello", "World"}
HArgs == {0, 24, 30, 48}
VArgs == {0, 50, 80, 120}
NArgs == {-1, 32, 33, 65, 126, 127, 160, 161, 255, 256}
CArgs == {"\\-", "oA", "zz"}
TypesetterArgs == {"utf8", "ps"}
XrArgs == {<<240, 24, 40>>, <<0, 24, 40>>, <<240, 12, 20>>, <<240, 0, 0>>}
PageArgs == {1}
FontArgs == {1}
SizeArgs == {0, 10, 11}
XfArgs == {<<"1", "R">>, <<"3", "B">>, <<"1", "B">>}
XXArgs == {"devtag:.col 1\n", "devtag:.eo.h\n", "ps: exec\n"}

----------------------------------------------------------------------------
(* Python values. *)
None == <<>>
Some(v) == <<v>>

(* not x, for an attribute that is None or an int: None and 0 are falsy. *)
NotInt(x) == x = None \/ x[1] = 0

(* not x, for an attribute that is None or a str: None and the empty   *)
(* string are falsy.                                                   *)
NotStr(x) == x = None \/ x[1] = ""

(* a % b and a // b of Python ints, b # 0: the result of % has b's sign,  *)
(* // rounds to minus infinity.                                            *)
PyMod(a, b) == IF b > 0 THEN a % b ELSE -((-a) % (-b))
PyFloorDiv(a, b) == IF b > 0 THEN a \div b ELSE (-a) \div (-b)

(* What a % q raises when the attribute q is not a usable divisor:       *)
(* int % None is a TypeError, int % 0 a ZeroDivisionError.                 *)
ModRaises(q) == IF q = None THEN "TypeError"
                ELSE IF q[1] = 0 THEN "ZeroDivisionError"
                ELSE "no"

(* s * n of a Python str: the empty string when n <= 0. *)
RECURSIVE Repeat(_, _)
Repeat(s, n) == IF n <= 0 THEN "" ELSE s \o Repeat(s, n - 1)

(* chr(k), and bytes((k,)).decode('ISO-8859-1'), for the code points used. *)
(* The module is ASCII: the Latin-1 characters are written by their        *)
(* RFC 1345 mnemonics (!I is the inverted exclamation mark, y: is y with   *)
(* diaeresis, NS the no-break space).                                      *)
Chr(k) == CASE k = 32 -> " "
            [] k = 33 -> "!"
            [] k = 65 -> "A"
            [] k = 126 -> "~"
            [] k = 160 -> "NS"
            [] k = 161 -> "!I"
            [] k = 255 -> "y:"
            [] OTHER -> "?"

(* ord(c), the inverse of Chr on those code points. *)
Ord(c) == CASE c = " " -> 32
            [] c = "!" -> 33
            [] c = "A" -> 65
            [] c = "~" -> 126
            [] c = "NS" -> 160
            [] c = "!I" -> 161
            [] c = "y:" -> 255
            [] OTHER -> 0

(* special_chars.chars as create_special_chars.py prints it: the fixed     *)
(* entries, and one glyph whose registry entry joins two code points       *)
(* (oA: u0041_030A).                                                       *)
special_chars == ("\\-" :> "-") @@ ("\\e" :> "\\") @@ ("\\." :> ".")
                 @@ ("oA" :> "Ao")

LINK_FONT == 0
BOLD_FONT == 1
UNDERLINE_FONT == 2
device_font_map == (<<"1", "R">> :> LINK_FONT) @@ (<<"3", "B">> :> BOLD_FONT)
                   @@ (<<"2", "I">> :> UNDERLINE_FONT)

(* The tokens of the tokenizer: (cmd, args). *)
Tok(c, a) == [cmd |-> c, args |-> a]
NoToken == Tok("", <<>>)

(* The commands TextOutput binds to noop, with arguments of the declared   *)
(* type and count.                                                         *)
NoopTokens == {Tok("n", <<40, 0>>), Tok("xi", <<>>), Tok("xF", <<"wget.1">>),
               Tok("md", <<>>), Tok("DFd", <<>>), Tok("w", <<>>),
               Tok("xt", <<>>)}

(* Tokens the tokenizer yields for which TextOutput has no attribute. *)
UnhandledTokens == {Tok("c", <<"a">>), Tok("v", <<40>>),
                    Tok("u", <<"1", "ab">>), Tok("mc", <<0, 0, 0>>),
                    Tok("mg", <<0>>), Tok("mk", <<0, 0, 0, 0>>),
                    Tok("mr", <<0, 0, 0>>), Tok("xH", <<40>>),
                    Tok("xS", <<0>>), Tok("xp", <<>>), Tok("xu", <<1>>)}

----------------------------------------------------------------------------
(* The locals of tokenizer() before its loop, but for the source.          *)
(* cmd is None before the first command and '' after each token; neither   *)
(* is a key of arg_types nor 'x', and both are written "" here.            *)
TokenizerStart ==
    /\ buf = <<>>
    /\ state = "CMD"
    /\ cmd = ""
    /\ args = <<>>
    /\ grow = TRUE
    /\ pc = "top"
    /\ outcome = "running"
    /\ message = ""
    /\ tokens = <<>>

(* No tokenizer of its own: the variables of SpecTok at rest. *)
TokenizerIdle ==
    /\ source = <<>>
    /\ fd = <<>>
    /\ TokenizerStart

(* No second instance: the variables of SpecTwo at rest. *)
InstancesIdle ==
    /\ module_fd = 0
    /\ wrapped = <<0, 0>>
    /\ offset = <<0, 0>>
    /\ received = << <<>>, <<>> >>
    /\ istate = <<"new", "new">>

(* TextOutput.__init__ and the start of the generator. *)
RendererStart ==
    /\ initial_typesetter = None
    /\ resolution = None
    /\ horiz_motion = None
    /\ vert_motion = None
    /\ page = None
    /\ device_font = None
    /\ font = None
    /\ font_size = None
    /\ horizontal_increment = 0
    /\ line = 0
    /\ reset_column = FALSE
    /\ status = "running"
    /\ pulled = 0
    /\ last = NoToken
    /\ frag = ""
    /\ nfrag = 0

Init ==
    /\ RendererStart
    /\ TokenizerIdle
    /\ InstancesIdle

(* The for loop of Outputter.__iter__ takes the next token. *)
Pull(tok) ==
    /\ status = "running"
    /\ pulled < MaxTokens
    /\ pulled' = pulled + 1
    /\ last' = tok
    /\ UNCHANGED <<tokvars, twovars>>

(* yield getattr(self, cmd)(args): the handler returned x. *)
Yield(x) ==
    /\ frag' = x
    /\ nfrag' = nfrag + 1
    /\ status' = "running"

(* Mutant of Raise: the failing step still hands a fragment to the caller. *)
Raise_YieldsFirst(e) ==
    /\ status' = e
    /\ frag' = ""
    /\ nfrag' = nfrag + 1

(* The handler raised e: the exception leaves the generator, which is      *)
(* finished from then on.                                                  *)
Raise(e) ==
    /\ status' = e
    /\ UNCHANGED <<frag, nfrag>>

t ==
    \E a \in TextArgs :
        /\ Pull(Tok("t", <<a>>))
        /\ horizontal_increment' = 0
        /\ Yield(a)
        /\ UNCHANGED <<initial_typesetter, resolution, horiz_motion,
                       vert_motion, page, device_font, font, font_size, line,
                       reset_column>>

(* Mutant of h: the column-reset flag is consumed before the argument is   *)
(* checked against the quantum.                                            *)
h_FlagFirst ==
    \E c \in {"h", "H"}, a \in HArgs :
        /\ Pull(Tok(c, <<a>>))
        /\ IF reset_column
           THEN /\ reset_column' = FALSE
                /\ Yield("")
                /\ UNCHANGED <<initial_typesetter, resolution, horiz_motion,
                               vert_motion, page, device_font, font,
                               font_size, horizontal_increment, line>>
           ELSE IF ModRaises(horiz_motion) # "no"
           THEN Raise(ModRaises(horiz_motion)) /\ UNCHANGED render
           ELSE IF PyMod(a, horiz_motion[1]) # 0
           THEN Raise("ParseError") /\ UNCHANGED render
           ELSE /\ Yield(Repeat(" ", PyFloorDiv(a, horiz_motion[1])
                                     - horizontal_increment))
                /\ UNCHANGED render

(* Mutant of h: a suppressed motion leaves the column-reset flag armed. *)
h_KeepsFlag ==
    \E c \in {"h", "H"}, a \in HArgs :
        /\ Pull(Tok(c, <<a>>))
        /\ IF ModRaises(horiz_motion) # "no"
           THEN Raise(ModRaises(horiz_motion)) /\ UNCHANGED render
           ELSE IF PyMod(a, horiz_motion[1]) # 0
           THEN Raise("ParseError") /\ UNCHANGED render
           ELSE IF reset_column
           THEN Yield("") /\ UNCHANGED render
           ELSE /\ Yield(Repeat(" ", PyFloorDiv(a, horiz_motion[1])
                                     - horizontal_increment))
                /\ UNCHANGED render

(* Mutant of h: the run of spaces ignores the previous glyph's width. *)
h_IgnoresWidth ==
    \E c \in {"h", "H"}, a \in HArgs :
        /\ Pull(Tok(c, <<a>>))
        /\ IF ModRaises(horiz_motion) # "no"
           THEN Raise(ModRaises(horiz_motion)) /\ UNCHANGED render
           ELSE IF PyMod(a, horiz_motion[1]) # 0
           THEN Raise("ParseError") /\ UNCHANGED render
           ELSE IF reset_column
           THEN /\ reset_column' = FALSE
                /\ Yield("")
                /\ UNCHANGED <<initial_typesetter, resolution, horiz_motion,
                               vert_motion, page, device_font, font,
                               font_size, horizontal_increment, line>>
           ELSE /\ Yield(Repeat(" ", PyFloorDiv(a, horiz_motion[1])))
                /\ UNCHANGED render

h ==
    \E c \in {"h", "H"}, a \in HArgs :
        /\ Pull(Tok(c, <<a>>))
        /\ IF ModRaises(horiz_motion) # "no"
           THEN Raise(ModRaises(horiz_motion)) /\ UNCHANGED render
           ELSE IF PyMod(a, horiz_motion[1]) # 0
           THEN Raise("ParseError") /\ UNCHANGED render
           ELSE IF reset_column
           THEN /\ reset_column' = FALSE
                /\ Yield("")
                /\ UNCHANGED <<initial_typesetter, resolution, horiz_motion,
                               vert_motion, page, device_font, font,
                               font_size, horizontal_increment, line>>
           ELSE /\ Yield(Repeat(" ", PyFloorDiv(a, horiz_motion[1])
                                     - horizontal_increment))
                /\ UNCHANGED render

noop ==
    \E tok \in NoopTokens :
        /\ Pull(tok)
        /\ Yield("")
        /\ UNCHANGED render

(* Mutant of N: the lower limit of the ASCII range is off by one. *)
N_AcceptsSpace ==
    \E a \in NArgs :
        /\ Pull(Tok("N", <<a>>))
        /\ horizontal_increment' = 1
        /\ IF a > 31 /\ a < 127
           THEN Yield(Chr(a))
           ELSE IF a > 160 /\ a < 256
           THEN Yield(Chr(a))
           ELSE Raise("ParseError")
        /\ UNCHANGED <<initial_typesetter, resolution, horiz_motion,
                       vert_motion, page, device_font, font, font_size, line,
                       reset_column>>

N ==
    \E a \in NArgs :
        /\ Pull(Tok("N", <<a>>))
        /\ horizontal_increment' = 1
        /\ IF a > 32 /\ a < 127
           THEN Yield(Chr(a))
           ELSE IF a > 160 /\ a < 256
           THEN Yield(Chr(a))
           ELSE Raise("ParseError")
        /\ UNCHANGED <<initial_typesetter, resolution, horiz_motion,
                       vert_motion, page, device_font, font, font_size, line,
                       reset_column>>

(* Mutant of C: every glyph is taken to be one column wide. *)
C_WidthOne ==
    \E a \in CArgs :
        /\ Pull(Tok("C", <<a>>))
        /\ IF a \notin DOMAIN special_chars
           THEN Raise("ParseError") /\ UNCHANGED render
           ELSE /\ horizontal_increment' = 1
                /\ Yield(special_chars[a])
                /\ UNCHANGED <<initial_typesetter, resolution, horiz_motion,
                               vert_motion, page, device_font, font,
                               font_size, line, reset_column>>

C ==
    \E a \in CArgs :
        /\ Pull(Tok("C", <<a>>))
        /\ IF a \notin DOMAIN special_chars
           THEN Raise("ParseError") /\ UNCHANGED render
           ELSE /\ horizontal_increment' = Len(special_chars[a])
                /\ Yield(special_chars[a])
                /\ UNCHANGED <<initial_typesetter, resolution, horiz_motion,
                               vert_motion, page, device_font, font,
                               font_size, line, reset_column>>

(* Mutant of xT: the first identifier is recorded whatever it is. *)
xT_AnyDevice ==
    \E a \in TypesetterArgs :
        /\ Pull(Tok("xT", <<a>>))
        /\ IF NotStr(initial_typesetter)
           THEN /\ initial_typesetter' = Some(a)
                /\ Yield("")
                /\ UNCHANGED <<resolution, horiz_motion, vert_motion,
                               page, device_font, font, font_size,
                               horizontal_increment, line, reset_column>>
           ELSE Raise("ParseError") /\ UNCHANGED render

xT ==
    \E a \in TypesetterArgs :
        /\ Pull(Tok("xT", <<a>>))
        /\ IF NotStr(initial_typesetter)
           THEN IF a # "utf8"
                THEN Raise("ParseError") /\ UNCHANGED render
                ELSE /\ initial_typesetter' = Some(a)
                     /\ Yield("")
                     /\ UNCHANGED <<resolution, horiz_motion, vert_motion,
                                    page, device_font, font, font_size,
                                    horizontal_increment, line, reset_column>>
           ELSE Raise("ParseError") /\ UNCHANGED render

xr ==
    \E a \in XrArgs :
        /\ Pull(Tok("xr", a))
        /\ IF NotInt(resolution)
           THEN /\ resolution' = Some(a[1])
                /\ horiz_motion' = Some(a[2])
                /\ vert_motion' = Some(a[3])
                /\ line' = a[3]
                /\ Yield("")
                /\ UNCHANGED <<initial_typesetter, page, device_font, font,
                               font_size, horizontal_increment, reset_column>>
           ELSE Raise("ParseError") /\ UNCHANGED render

(* Mutant of p: a page starts at the first line, as set-resolution does,  *)
(* instead of at 0.                                                        *)
p_LineToQuantum ==
    \E a \in PageArgs :
        /\ Pull(Tok("p", <<a>>))
        /\ page' = Some(a)
        /\ line' = IF vert_motion = None THEN 0 ELSE vert_motion[1]
        /\ Yield("")
        /\ UNCHANGED <<initial_typesetter, resolution, horiz_motion,
                       vert_motion, device_font, font, font_size,
                       horizontal_increment, reset_column>>

p ==
    \E a \in PageArgs :
        /\ Pull(Tok("p", <<a>>))
        /\ page' = Some(a)
        /\ line' = 0
        /\ Yield("")
        /\ UNCHANGED <<initial_typesetter, resolution, horiz_motion,
                       vert_motion, device_font, font, font_size,
                       horizontal_increment, reset_column>>

xf ==
    \E a \in XfArgs :
        /\ Pull(Tok("xf", a))
        /\ IF a \notin DOMAIN device_font_map
           THEN Raise("ParseError") /\ UNCHANGED render
           ELSE /\ device_font' = Some(device_font_map[a])
                /\ Yield("")
                /\ UNCHANGED <<initial_typesetter, resolution, horiz_motion,
                               vert_motion, page, font, font_size,
                               horizontal_increment, line, reset_column>>

f ==
    \E a \in FontArgs :
        /\ Pull(Tok("f", <<a>>))
        /\ font' = Some(a)
        /\ Yield("")
        /\ UNCHANGED <<initial_typesetter, resolution, horiz_motion,
                       vert_motion, page, device_font, font_size,
                       horizontal_increment, line, reset_column>>

s ==
    \E a \in SizeArgs :
        /\ Pull(Tok("s", <<a>>))
        /\ IF ~NotInt(font_size) /\ font_size # Some(a)
           THEN Raise("ParseError") /\ UNCHANGED render
           ELSE /\ font_size' = Some(a)
                /\ Yield("")
                /\ UNCHANGED <<initial_typesetter, resolution, horiz_motion,
                               vert_motion, page, device_font, font,
                               horizontal_increment, line, reset_column>>

(* Mutant of V: the line position is updated before the number of         *)
(* newlines is computed from it.                                           *)
V_LineFirst ==
    \E a \in VArgs :
        /\ Pull(Tok("V", <<a>>))
        /\ IF ModRaises(vert_motion) # "no"
           THEN Raise(ModRaises(vert_motion)) /\ UNCHANGED render
           ELSE IF PyMod(a, vert_motion[1]) # 0
           THEN Raise("ParseError") /\ UNCHANGED render
           ELSE /\ line' = a
                /\ Yield(Repeat("\n", PyFloorDiv(a, vert_motion[1])
                                      - PyFloorDiv(a, vert_motion[1])))
                /\ UNCHANGED <<initial_typesetter, resolution,
                               horiz_motion, vert_motion, page,
                               device_font, font, font_size,
                               horizontal_increment, reset_column>>

(* Mutant of V: a motion with no usable quantum is passed over, as a      *)
(* no-op command is, instead of failing.                                   *)
V_SkipsWithoutQuantum ==
    \E a \in VArgs :
        /\ Pull(Tok("V", <<a>>))
        /\ IF ModRaises(vert_motion) # "no"
           THEN Yield("") /\ UNCHANGED render
           ELSE IF PyMod(a, vert_motion[1]) # 0
           THEN Raise("ParseError") /\ UNCHANGED render
           ELSE LET prev_line == line
                IN  /\ line' = a
                    /\ Yield(Repeat("\n", PyFloorDiv(a, vert_motion[1])
                                          - PyFloorDiv(prev_line,
                                                       vert_motion[1])))
                    /\ UNCHANGED <<initial_typesetter, resolution,
                                   horiz_motion, vert_motion, page,
                                   device_font, font, font_size,
                                   horizontal_increment, reset_column>>

V ==
    \E a \in VArgs :
        /\ Pull(Tok("V", <<a>>))
        /\ IF ModRaises(vert_motion) # "no"
           THEN Raise(ModRaises(vert_motion)) /\ UNCHANGED render
           ELSE IF PyMod(a, vert_motion[1]) # 0
           THEN Raise("ParseError") /\ UNCHANGED render
           ELSE LET prev_line == line
                IN  /\ line' = a
                    /\ Yield(Repeat("\n", PyFloorDiv(a, vert_motion[1])
                                          - PyFloorDiv(prev_line,
                                                       vert_motion[1])))
                    /\ UNCHANGED <<initial_typesetter, resolution,
                                   horiz_motion, vert_motion, page,
                                   device_font, font, font_size,
                                   horizontal_increment, reset_column>>

(* Mutant of xX: only the first of the two tags arms the flag. *)
xX_ColOnly ==
    \E a \in XXArgs :
        /\ Pull(Tok("xX", <<a>>))
        /\ reset_column' = IF a = "devtag:.col 1\n"
                           THEN TRUE
                           ELSE reset_column
        /\ Yield("")
        /\ UNCHANGED <<initial_typesetter, resolution, horiz_motion,
                       vert_motion, page, device_font, font, font_size,
                       horizontal_increment, line>>

xX ==
    \E a \in XXArgs :
        /\ Pull(Tok("xX", <<a>>))
        /\ reset_column' = IF a \in {"devtag:.col 1\n", "devtag:.eo.h\n"}
                           THEN TRUE
                           ELSE reset_column
        /\ Yield("")
        /\ UNCHANGED <<initial_typesetter, resolution, horiz_motion,
                       vert_motion, page, device_font, font, font_size,
                       horizontal_increment, line>>

(* raise StopIteration() in a method called from the generator's frame:   *)
(* the interpreters before PEP 479 took effect (Python up to 3.6) end the  *)
(* generator silently, the later ones turn the exception into a            *)
(* RuntimeError that reaches the caller.                                   *)
xs ==
    /\ Pull(Tok("xs", <<>>))
    /\ \E e \in {"stopped", "RuntimeError"} : Raise(e)
    /\ UNCHANGED render

(* hasattr(self, cmd) is false: raise NotImplemented(cmd) calls the        *)
(* NotImplemented singleton, which is a TypeError.                         *)
Unhandled ==
    \E tok \in UnhandledTokens :
        /\ Pull(tok)
        /\ Raise("TypeError")
        /\ UNCHANGED render

(* The tokenizer raises TokenizingError instead of yielding a token. *)
TokenizerRaises ==
    /\ status = "running"
    /\ Raise("TokenizingError")
    /\ UNCHANGED <<pulled, last>>
    /\ UNCHANGED render
    /\ UNCHANGED <<tokvars, twovars>>

(* The tokenizer's source is exhausted: the for loop ends and the          *)
(* generator returns.                                                      *)
TokenizerEnds ==
    /\ status = "running"
    /\ Raise("exhausted")
    /\ UNCHANGED <<pulled, last>>
    /\ UNCHANGED render
    /\ UNCHANGED <<tokvars, twovars>>

Next ==
    \/ t
    \/ h
    \/ V
    \/ noop
    \/ N
    \/ C
    \/ xT
    \/ xr
    \/ p
    \/ xf
    \/ f
    \/ s
    \/ xX
    \/ xs
    \/ Unhandled
    \/ TokenizerRaises
    \/ TokenizerEnds

Spec == Init /\ [][Next]_vars

----------------------------------------------------------------------------
(* The generator tokenizer().  A text is a sequence of one-character       *)
(* strings.  A local of the code that is assigned once and read several    *)
(* times is bound by \E over a singleton.                                  *)

(* fd.read(50), and the fill threshold len(buf) < 50. *)
ReadSize == 50

(* Bound of the exploration: the lines of a document. *)
MaxLines == 2

(* s[:n] and s[n:] of Python, for n >= 0. *)
Take(txt, n) == SubSeq(txt, 1, IF n < Len(txt) THEN n ELSE Len(txt))
Drop(txt, n) == IF n >= Len(txt) THEN <<>> ELSE SubSeq(txt, n + 1, Len(txt))

(* The str of a text, and of its characters from the i-th on. *)
RECURSIVE JoinFrom(_, _)
JoinFrom(txt, i) == IF i > Len(txt) THEN "" ELSE txt[i] \o JoinFrom(txt, i + 1)
Join(txt) == JoinFrom(txt, 1)

(* n copies of the character c. *)
Pad(n, c) == [i \in 1..n |-> c]

(* \s and \S under re.ASCII, on the characters documents are made of. *)
IsSpace(c) == c \in {" ", "\t", "\n", "\r", "\f"}

(* The number of characters of txt before the first position in at, all  *)
(* of them when at is empty.                                               *)
Before(at, txt) == IF at = {} THEN Len(txt)
                   ELSE (CHOOSE i \in at : \A j \in at : i <= j) - 1

(* The length of the longest prefix of \S, and of \s, characters. *)
SpanWord(txt) == Before({i \in 1..Len(txt) : IsSpace(txt[i])}, txt)
SpanSpaces(txt) == Before({i \in 1..Len(txt) : ~IsSpace(txt[i])}, txt)

(* m.end() of a match at the start of txt, or NoMatch when match() returns   *)
(* None.                                                                   *)
NoMatch == -1
CHAR_AND_SPACES(txt) == IF txt = <<>> \/ IsSpace(txt[1]) THEN NoMatch
                      ELSE 1 + SpanSpaces(Tail(txt))
WORD(txt) == IF SpanWord(txt) = 0 THEN NoMatch ELSE SpanWord(txt)
WORD_AND_SPACES(txt) == IF SpanWord(txt) = 0 THEN NoMatch
                      ELSE SpanWord(txt) + SpanSpaces(Drop(txt, SpanWord(txt)))

(* txt.find('\n'): the 0-based index of the first newline, which is the    *)
(* number of characters before it, and -1 without one.                     *)
SpanLine(txt) == Before({i \in 1..Len(txt) : txt[i] = "\n"}, txt)
Find(txt) == IF SpanLine(txt) = Len(txt) THEN -1 ELSE SpanLine(txt)

(* LINE is .*?\n with DOTALL: up to and including the first newline. *)
LINE(txt) == IF Find(txt) = -1 THEN NoMatch ELSE Find(txt) + 1

(* int(w) of a word w: an optional sign and decimal digits; anything else  *)
(* is a ValueError.                                                        *)
Digit == ("0" :> 0) @@ ("1" :> 1) @@ ("2" :> 2) @@ ("3" :> 3) @@ ("4" :> 4)
         @@ ("5" :> 5) @@ ("6" :> 6) @@ ("7" :> 7) @@ ("8" :> 8) @@ ("9" :> 9)
RECURSIVE Decimal(_)
Decimal(w) == IF w = <<>> THEN 0
              ELSE 10 * Decimal(Take(w, Len(w) - 1)) + Digit[w[Len(w)]]
IsInt(w) == LET d == IF w # <<>> /\ w[1] \in {"-", "+"} THEN Tail(w) ELSE w
            IN d # <<>> /\ \A i \in 1..Len(d) : d[i] \in DOMAIN Digit
ToInt(w) == IF w[1] = "-" THEN -Decimal(Tail(w))
            ELSE IF w[1] = "+" THEN Decimal(Tail(w))
            ELSE Decimal(w)

(* arg_types: command |-> <<validator, count>>. *)
arg_types ==
    [c \in {"C", "c", "t", "xF", "xT"} |-> <<"str", 1>>]
    @@ [c \in {"f", "H", "h", "N", "p", "s", "mg", "v", "V", "xH", "xS",
               "xu"} |-> <<"int", 1>>]
    @@ ("n" :> <<"int", 2>>) @@ ("mc" :> <<"int", 3>>)
    @@ ("mk" :> <<"int", 4>>) @@ ("mr" :> <<"int", 3>>)
    @@ ("u" :> <<"str", 2>>) @@ ("xf" :> <<"str", 2>>)
    @@ [c \in {"xi", "xp", "xs", "xt"} |-> <<"None", 0>>]
    @@ ("xr" :> <<"int", 3>>) @@ ("xX" :> <<"str", 0>>)

(* The commands line 106 recognises by their first character. *)
SingleCharCommands == {"C", "c", "f", "H", "h", "N", "p", "s", "n", "t",
                       "V", "v", "u", "x"}

(* The lines documents are made of.  They end with a newline but for the   *)
(* two that stop inside a command.                                         *)
Lines ==
    { <<"h", "2", "4", "\n">>,
      <<"n", "4", "0", " ", "0", "\n">>,
      <<"t", "H", "i", "\n">>,
      <<"t">> \o Pad(ReadSize - 10, "a") \o <<"\n">>,
      <<"x", " ", "T", " ", "p", "s", "\n">>,
      <<"x", " ", "i", "n", "i", "t", "\n">>,
      <<"x", " ", "X", " ", "d", "e", "v", "t", "a", "g", ":", ".", "c",
        "o", "l", " ", "1", "\n">>,
      <<"x", " ", "X", "\n">>,
      <<"x", " ", "X", " ">> \o Pad(ReadSize, "a") \o <<"\n">>,
      <<"#", " ", "c", "\n">>,
      <<"#">> \o Pad(ReadSize, "c") \o <<"\n">>,
      <<"h">> \o Pad(ReadSize, " ") \o <<"2", "4", "\n">>,
      <<"h">> \o Pad(ReadSize - 2, " ") \o <<"2", "4", "\n">>,
      <<"h">>,
      <<"m">>,
      <<"w">>,
      <<"m", "d", "\n">>,
      <<"m", "g", " ", "1", "\n">>,
      <<"m", "z", "\n">>,
      <<"D", "F", "d", "\n">>,
      <<"D", "l", "\n">>,
      <<"q", "\n">>,
      <<"x", " ", "q", " ", "1", "\n">>,
      <<"h", "a", "b", "\n">> }

(* The documents of at most n lines. *)
RECURSIVE Documents(_)
Documents(n) ==
    IF n = 0 THEN {<<>>}
    ELSE Documents(n - 1)
         \cup {d \o l : d \in Documents(n - 1), l \in Lines}

(* tokenizer(fd) is called on a document: lines 83-87. *)
InitTok ==
    /\ source \in Documents(MaxLines)
    /\ fd = source
    /\ TokenizerStart
    /\ RendererStart
    /\ InstancesIdle

(* What no step of the tokenizer touches. *)
TokFrame == UNCHANGED <<vars, twovars>>

(* An exception leaves the generator, which is finished from then on. *)
Throw(e, m) ==
    /\ outcome' = e
    /\ message' = m
    /\ UNCHANGED <<source, fd, buf, state, cmd, args, grow, pc, tokens>>

(* grow = True; continue, in argument collection with buf = b, cmd = c. *)
Grow(b, c) ==
    /\ buf' = b
    /\ state' = "ARG"
    /\ cmd' = c
    /\ grow' = TRUE
    /\ pc' = "top"
    /\ UNCHANGED <<source, fd, args, outcome, message, tokens>>

(* yield c, [] in command recognition, and the statements after it. *)
YieldBare(c, b) ==
    /\ tokens' = Append(tokens, Tok(c, <<>>))
    /\ cmd' = ""
    /\ buf' = b
    /\ pc' = "top"
    /\ UNCHANGED <<source, fd, state, args, grow, outcome, message>>

(* Lines 191-194, the end of the loop body: the token is yielded when the  *)
(* state is back to CMD.                                                   *)
Finish(b, st, c, a) ==
    /\ buf' = b
    /\ state' = st
    /\ pc' = "top"
    /\ IF st = "CMD"
       THEN /\ tokens' = Append(tokens, Tok(c, a))
            /\ cmd' = ""
            /\ args' = <<>>
       ELSE /\ cmd' = c
            /\ args' = a
            /\ UNCHANGED tokens
    /\ UNCHANGED <<source, fd, grow, outcome, message>>

(* Lines 178-189: the word and the whitespace after it are consumed; for   *)
(* xX the argument is what LINE matches from there, and end.end() on no    *)
(* match is an AttributeError.                                             *)
Consume(b, st, c, a) ==
    \E rest \in {Drop(b, WORD_AND_SPACES(b))} :
        IF c = "xX"
        THEN \E end \in {LINE(rest)} :
                 IF end = NoMatch
                 THEN Throw("AttributeError", "NoneType has no attribute end")
                 ELSE Finish(Drop(rest, end), st, c,
                             Append(a, Join(Take(rest, end))))
        ELSE Finish(rest, st, c, a)

(* Mutant of Complete: one argument is enough. *)
Complete_AfterFirst(a, count) == Len(a) >= 1

(* len(args) == count, line 167. *)
Complete(a, count) == Len(a) = count

(* Lines 153-194, entered with buf = b, cmd = c, args = a. *)
Argument(b, c, a) ==
    IF WORD(b) = NoMatch
    THEN Grow(b, c)
    ELSE IF c \in DOMAIN arg_types
    THEN \E validator \in {arg_types[c][1]}, count \in {arg_types[c][2]},
            word \in {Take(b, WORD(b))} :
             IF validator = "int" /\ ~IsInt(word)
             THEN Throw("TokenizingError",
                        "Command " \o c \o " takes an integer as its argument")
             ELSE \E a2 \in {IF validator = "int" THEN Append(a, ToInt(word))
                              ELSE IF validator = "str"
                              THEN Append(a, Join(word))
                              ELSE a} :
                      Consume(b,
                              IF Complete(a2, count) THEN "CMD" ELSE "ARG",
                              c, a2)
    ELSE IF c = "x"
    THEN \E c2 \in {c \o b[1]} :
             Consume(b,
                     IF c2 \in DOMAIN arg_types /\ arg_types[c2][2] = 0
                     THEN "CMD" ELSE "ARG",
                     c2, a)
    ELSE Throw("TokenizingError",
               "Argument type not implemented yet for cmd " \o c)

(* Lines 89-91: what buf and the source are after the conditional read. *)
Refill == grow \/ Len(buf) < ReadSize
Filled == IF Refill THEN buf \o Take(fd, ReadSize) ELSE buf
Unread == IF Refill THEN Drop(fd, ReadSize) ELSE fd

(* The top of the loop with something to scan: on to the body. *)
Read ==
    /\ outcome = "running" /\ pc = "top"
    /\ Filled # <<>>
    /\ buf' = Filled
    /\ fd' = Unread
    /\ grow' = FALSE
    /\ pc' = "body"
    /\ UNCHANGED <<source, state, cmd, args, outcome, message, tokens>>
    /\ TokFrame

(* Lines 92-93: buf is empty after the read, the generator returns. *)
Break ==
    /\ outcome = "running" /\ pc = "top"
    /\ Filled = <<>>
    /\ outcome' = "ended"
    /\ buf' = Filled
    /\ fd' = Unread
    /\ grow' = FALSE
    /\ UNCHANGED <<source, state, cmd, args, pc, message, tokens>>
    /\ TokFrame

(* Lines 98-104.  find returns -1 when buf holds no newline and never 0    *)
(* when buf[0] is '#', so the test "not end" is never true and line 104    *)
(* always runs: with end = -1 it leaves buf as it is.                      *)
Uncomment(b) == IF b[1] = "#" THEN Drop(b, Find(b) + 1) ELSE b

(* The body is entered in command recognition. *)
AtCommand == outcome = "running" /\ pc = "body" /\ state = "CMD"

(* The comment was all there was in buf: buf[0] at line 106 is an          *)
(* IndexError.                                                             *)
NothingAfterComment ==
    /\ AtCommand
    /\ Uncomment(buf) = <<>>
    /\ Throw("IndexError", "string index out of range")
    /\ TokFrame

(* Lines 106-114, then the argument part of the same iteration. *)
Command ==
    /\ AtCommand
    /\ \E b \in {Uncomment(buf)} :
           /\ b # <<>>
           /\ b[1] \in SingleCharCommands
           /\ \E rest \in {Drop(b, CHAR_AND_SPACES(b))} :
                  Argument(rest, b[1], args)
    /\ TokFrame

(* Lines 115-137: the m family. *)
Colour ==
    /\ AtCommand
    /\ \E b \in {Uncomment(buf)} :
           /\ b # <<>>
           /\ b[1] = "m"
           /\ IF Len(b) < 2
              THEN Throw("IndexError", "string index out of range")
              ELSE \E rest \in {Drop(b, WORD_AND_SPACES(b))} :
                       IF b[2] \in {"c", "g", "k", "r"}
                       THEN Argument(rest, "m" \o b[2], args)
                       ELSE IF b[2] = "d"
                       THEN YieldBare("md", rest)
                       ELSE Throw("TokenizingError",
                                  "Unsupported color type")
    /\ TokFrame

(* Lines 138-141. *)
WordSpace ==
    /\ AtCommand
    /\ \E b \in {Uncomment(buf)} :
           /\ b # <<>>
           /\ b[1] = "w"
           /\ YieldBare("w", Drop(b, 1))
    /\ TokFrame

(* Lines 142-149. *)
Drawing ==
    /\ AtCommand
    /\ \E b \in {Uncomment(buf)} :
           /\ b # <<>>
           /\ b[1] = "D"
           /\ IF Take(b, 3) = <<"D", "F", "d">>
              THEN YieldBare("DFd", Drop(b, 4))
              ELSE Throw("TokenizingError",
                         "Drawing command " \o Join(Take(b, 2))
                             \o " not implemented yet")
    /\ TokFrame

(* Lines 150-151. *)
UnknownCommand ==
    /\ AtCommand
    /\ \E b \in {Uncomment(buf)} :
           /\ b # <<>>
           /\ b[1] \notin SingleCharCommands \cup {"m", "w", "D"}
           /\ Throw("TokenizingError", "Unknown cmd " \o b[1])
    /\ TokFrame

(* The body is entered in argument collection: lines 153-194. *)
CollectArgument ==
    /\ outcome = "running" /\ pc = "body" /\ state = "ARG"
    /\ Argument(buf, cmd, args)
    /\ TokFrame

NextTok ==
    \/ Read
    \/ Break
    \/ NothingAfterComment
    \/ Command
    \/ Colour
    \/ WordSpace
    \/ Drawing
    \/ UnknownCommand
    \/ CollectArgument

SpecTok == InitTok /\ [][NextTok]_tokvars

(* The while loop runs on, and the caller keeps pulling tokens, as long    *)
(* as the generator has a next statement.                                  *)
FairSpecTok == SpecTok /\ WF_tokvars(NextTok)

----------------------------------------------------------------------------
(* Two instances of TextOutput, each constructed over a source of its own  *)
(* and iterated in any interleaving.  A source is a file object: a         *)
(* sequence of chunks and the position of the next read, which every       *)
(* reader of the file shares.  A chunk is what one io.TextIOWrapper takes  *)
(* from the file in one read.                                              *)

(* Bound of the exploration: the chunks of a source. *)
SourceChunks == 3

Instances == {1, 2}

(* TextOutput(fd): instance i is constructed over source i.  Outputter's   *)
(* __init__ would keep it in self.fd; TextOutput.__init__ overrides it     *)
(* and keeps nothing.                                                      *)
handed == <<1, 2>>

(* The module-level name fd is bound to one of the sources (the with       *)
(* statement of the script binds it), or to nothing when the module is     *)
(* imported.                                                               *)
InitTwo ==
    /\ module_fd \in {0, 1, 2}
    /\ wrapped = <<0, 0>>
    /\ offset = <<0, 0>>
    /\ received = << <<>>, <<>> >>
    /\ istate = <<"new", "new">>
    /\ RendererStart
    /\ TokenizerIdle

(* The first next() on iter(instance i): __iter__ calls tokenizer(fd),     *)
(* and fd there is the module-level name, a NameError when it is unbound.  *)
StartIteration(i) ==
    /\ istate[i] = "new"
    /\ IF module_fd = 0
       THEN /\ istate' = [istate EXCEPT ![i] = "NameError"]
            /\ UNCHANGED wrapped
       ELSE /\ istate' = [istate EXCEPT ![i] = "iterating"]
            /\ wrapped' = [wrapped EXCEPT ![i] = module_fd]
    /\ UNCHANGED <<module_fd, offset, received>>
    /\ UNCHANGED <<vars, tokvars>>

(* The tokenizer of instance i reads: the next chunk of the file it        *)
(* wrapped, from the position the file is at, or the end of the file,      *)
(* which ends the generator.                                               *)
ReadChunk(i) ==
    /\ istate[i] = "iterating"
    /\ IF offset[wrapped[i]] < SourceChunks
       THEN /\ received' = [received EXCEPT
                               ![i] = Append(@, <<wrapped[i],
                                                  offset[wrapped[i]] + 1>>)]
            /\ offset' = [offset EXCEPT ![wrapped[i]] = @ + 1]
            /\ UNCHANGED istate
       ELSE /\ istate' = [istate EXCEPT ![i] = "ended"]
            /\ UNCHANGED <<received, offset>>
    /\ UNCHANGED <<module_fd, wrapped>>
    /\ UNCHANGED <<vars, tokvars>>

(* The wrapper of a finished generator closes the file it wrapped when it  *)
(* is collected; a later read of that file by the other instance is a      *)
(* ValueError.  When the wrapper is collected is the interpreter's choice. *)
ReadClosed(i) ==
    /\ istate[i] = "iterating"
    /\ \E j \in Instances \ {i} :
           wrapped[j] = wrapped[i] /\ istate[j] = "ended"
    /\ istate' = [istate EXCEPT ![i] = "ValueError"]
    /\ UNCHANGED <<module_fd, wrapped, offset, received>>
    /\ UNCHANGED <<vars, tokvars>>

NextTwo ==
    \/ \E i \in Instances : StartIteration(i)
    \/ \E i \in Instances : ReadChunk(i)
    \/ \E i \in Instances : ReadClosed(i)

SpecTwo == InitTwo /\ [][NextTwo]_twovars

----------------------------------------------------------------------------
(* Vocabulary of the properties. *)

(* This step processed a token whose command is c. *)
Step(c) == pulled' = pulled + 1 /\ last'.cmd = c
StepH == pulled' = pulled + 1 /\ last'.cmd \in {"h", "H"}
(* The handler of this step returned: its fragment reached the caller. *)
Accepted == status' = "running"
Max0(n) == IF n < 0 THEN 0 ELSE n

----------------------------------------------------------------------------
(* C1, as stated: a parse that fails with a lexical or a semantic failure  *)
(* has delivered no fragment to the caller.                                *)
C1_NoPartialOutput ==
    status \in {"TokenizingError", "ParseError"} => nfrag = 0

(* C1, amended: a failing parse has delivered exactly one fragment for     *)
(* each command that precedes the offending one and none for the           *)
(* offending command; a tokenizer failure comes after every token pulled   *)
(* so far has been rendered.                                               *)
C1_FragmentsBeforeFailure ==
    /\ status \in {"ParseError", "TypeError", "ZeroDivisionError",
                   "RuntimeError"}
           => nfrag = pulled - 1
    /\ status = "TokenizingError" => nfrag = pulled

C1_Witness ==
    /\ status = "ParseError"
    /\ last.cmd = "V"
    /\ nfrag >= 3
    /\ frag = "Hello"

(* C2: processing xs ends the render sequence with no error, and after    *)
(* the sequence has ended no token is pulled and no fragment is emitted.   *)
C2_StopIsSuccess ==
    [][/\ Step("xs") => status' = "stopped"
       /\ status # "running" => UNCHANGED <<pulled, nfrag, frag>>]_vars

(* C3: once a set-resolution command has been accepted, every later one    *)
(* raises a semantic failure and leaves the resolution and both quanta as  *)
(* they were.                                                              *)
C3_ResolutionSetOnce ==
    [][(resolution # None /\ Step("xr"))
           => /\ status' = "ParseError"
              /\ UNCHANGED <<resolution, horiz_motion, vert_motion>>]_vars

(* C4: xT is accepted exactly when no typesetter is recorded and its       *)
(* argument is utf8; a rejected xT is a semantic failure that records      *)
(* nothing; the recorded typesetter is unset or utf8 and, once set, never  *)
(* changes.                                                                *)
C4_TypesetterOnce ==
    [][/\ Step("xT")
           => /\ Accepted <=> (initial_typesetter = None
                               /\ last'.args[1] = "utf8")
              /\ Accepted => initial_typesetter' = Some("utf8")
              /\ ~Accepted => /\ status' = "ParseError"
                              /\ UNCHANGED initial_typesetter
       /\ initial_typesetter # None => UNCHANGED initial_typesetter
       /\ initial_typesetter' \in {None, Some("utf8")}]_vars

C4_Witness ==
    /\ last = Tok("xT", <<"utf8">>)
    /\ status = "ParseError"
    /\ initial_typesetter = Some("utf8")

(* C5: with a quantum greater than 1, a horizontal motion whose argument   *)
(* is no multiple of the horizontal quantum, and a vertical motion whose   *)
(* argument is no multiple of the vertical quantum, raise a semantic       *)
(* failure, emit nothing and change no render state, the column-reset      *)
(* flag included.                                                          *)
C5_NonQuantumMotionFails ==
    [][(\/ /\ StepH
           /\ horiz_motion # None
           /\ horiz_motion[1] > 1
           /\ last'.args[1] % horiz_motion[1] # 0
        \/ /\ Step("V")
           /\ vert_motion # None
           /\ vert_motion[1] > 1
           /\ last'.args[1] % vert_motion[1] # 0)
           => /\ status' = "ParseError"
              /\ UNCHANGED <<render, frag, nfrag>>]_vars

C5_Witness ==
    /\ last.cmd \in {"h", "H"}
    /\ status = "ParseError"
    /\ reset_column
    /\ horiz_motion # None
    /\ horiz_motion[1] > 1

(* C6, as stated: an accepted V(new) emits exactly                         *)
(* floor(new/q_v) - floor(old/q_v) newline characters and leaves the line  *)
(* position at new.                                                        *)
C6_NewlineCount ==
    [][(Step("V") /\ Accepted)
           => /\ Len(frag') = PyFloorDiv(last'.args[1], vert_motion[1])
                              - PyFloorDiv(line, vert_motion[1])
              /\ line' = last'.args[1]]_vars

(* C6, amended: an accepted V(new) emits max(0, floor(new/q_v) -           *)
(* floor(old/q_v)) characters, all of them newlines, and leaves the line   *)
(* position at new; old is q_v right after an accepted set-resolution, 0   *)
(* right after a page command, and no other command changes it.  V(80)     *)
(* from line 40 under q_v = 40 emits one newline.                          *)
C6_NewlineCountNonNegative ==
    [][/\ (Step("V") /\ Accepted)
           => /\ Len(frag') = Max0(PyFloorDiv(last'.args[1], vert_motion[1])
                                   - PyFloorDiv(line, vert_motion[1]))
              /\ frag' = Repeat("\n", Len(frag'))
              /\ line' = last'.args[1]
              /\ (last'.args[1] = 80 /\ line = 40 /\ vert_motion[1] = 40)
                     => frag' = "\n"
       /\ (Step("xr") /\ Accepted) => line' = last'.args[3]
       /\ Step("p") => line' = 0
       /\ (~((Step("V") \/ Step("xr")) /\ Accepted) /\ ~Step("p"))
              => line' = line]_vars

C6_Witness ==
    /\ last = Tok("V", <<80>>)
    /\ status = "running"
    /\ pulled = 4
    /\ initial_typesetter = Some("utf8")
    /\ resolution = Some(240)
    /\ vert_motion = Some(40)
    /\ page = None
    /\ horizontal_increment = 0
    /\ line = 80
    /\ frag = "\n"

(* C7, as stated: the line position never decreases in a step, except in   *)
(* a step that processes a page command.                                   *)
C7_LineMonotonic ==
    [][line' >= line \/ Step("p")]_vars

(* C7, amended: the line position decreases only in a step that processes  *)
(* a page command (to 0), an accepted vertical motion (to its argument: a  *)
(* backward motion is accepted) or an accepted set-resolution (to the      *)
(* vertical quantum).                                                      *)
C7_LineDecreasesOnlyByPageMotionResolution ==
    [][line' < line
           => \/ Step("p") /\ line' = 0
              \/ Step("V") /\ Accepted /\ line' = last'.args[1]
              \/ Step("xr") /\ Accepted /\ line' = last'.args[3]]_vars

C7_Witness ==
    /\ pulled = 2
    /\ last = Tok("V", <<0>>)
    /\ status = "running"
    /\ vert_motion = Some(40)
    /\ line = 0

(* C8: an armed column-reset flag stays armed across every step that is    *)
(* no horizontal motion; the first accepted horizontal motion emits the    *)
(* empty fragment and clears it; an accepted horizontal motion with the    *)
(* flag clear emits its run of spaces and leaves the flag clear; the       *)
(* column-reset tag arms the flag.                                         *)
C8_FlagSuppressesOneMotion ==
    [][/\ (reset_column /\ ~StepH) => reset_column'
       /\ (reset_column /\ StepH /\ Accepted)
              => frag' = "" /\ ~reset_column'
       /\ (~reset_column /\ StepH /\ Accepted)
              => /\ Len(frag') = Max0(PyFloorDiv(last'.args[1],
                                                 horiz_motion[1])
                                      - horizontal_increment)
                 /\ ~reset_column'
       /\ (Step("xX") /\ last'.args[1] = "devtag:.col 1\n")
              => reset_column']_vars

(* The motion would have emitted spaces, and emitted none: the flag was   *)
(* armed, and is clear now.                                                *)
C8_Witness ==
    /\ last.cmd \in {"h", "H"}
    /\ status = "running"
    /\ horiz_motion # None
    /\ horiz_motion[1] > 0
    /\ PyFloorDiv(last.args[1], horiz_motion[1]) - horizontal_increment > 0
    /\ frag = ""
    /\ ~reset_column

(* C9, as stated: an accepted horizontal motion with the flag clear emits  *)
(* a fragment of length (a / q_h) - w.                                     *)
C9_SpaceRun ==
    [][(~reset_column /\ StepH /\ Accepted)
           => Len(frag') = PyFloorDiv(last'.args[1], horiz_motion[1])
                           - horizontal_increment]_vars

(* C9, amended: an accepted horizontal motion with the flag clear emits    *)
(* max(0, (a / q_h) - w) characters, all of them spaces, and leaves w      *)
(* unchanged; w is 0 after a literal-text command, 1 after a               *)
(* numeric-character command, the length of the mapped string after a     *)
(* named-glyph command; with a = 0 and a usable quantum the motion is      *)
(* accepted, and with w = 0 its fragment is empty.                         *)
C9_SpaceRunNonNegative ==
    [][/\ (~reset_column /\ StepH /\ Accepted)
              => /\ Len(frag') = Max0(PyFloorDiv(last'.args[1],
                                                 horiz_motion[1])
                                      - horizontal_increment)
                 /\ frag' = Repeat(" ", Len(frag'))
       /\ StepH => horizontal_increment' = horizontal_increment
       /\ Step("t") => horizontal_increment' = 0
       /\ (Step("N") /\ Accepted) => horizontal_increment' = 1
       /\ (Step("C") /\ Accepted)
              => /\ horizontal_increment' = Len(frag')
                 /\ frag' = special_chars[last'.args[1]]
       /\ (StepH /\ last'.args[1] = 0 /\ horiz_motion # None
           /\ horiz_motion[1] # 0)
              => /\ Accepted
                 /\ (horizontal_increment = 0 => frag' = "")]_vars

C9_Witness ==
    /\ last = Tok("h", <<48>>)
    /\ status = "running"
    /\ horiz_motion = Some(24)
    /\ horizontal_increment = 1
    /\ frag = " "

(* C10: the first font-size command is accepted and records its value; a  *)
(* later one with another value raises a semantic failure, one with the    *)
(* same value changes nothing; the recorded size never changes once set.   *)
C10_FontSizeFixed ==
    [][/\ Step("s")
           => IF font_size = None
              THEN Accepted /\ font_size' = Some(last'.args[1])
              ELSE IF font_size = Some(last'.args[1])
              THEN Accepted /\ UNCHANGED render
              ELSE status' = "ParseError" /\ UNCHANGED render
       /\ font_size # None => UNCHANGED font_size]_vars

(* C18: a C command whose argument is a key of the special-character      *)
(* table is accepted, emits exactly the mapped string and sets the         *)
(* previous-glyph width to that string's length; a C command whose         *)
(* argument is not a key raises a semantic failure and emits nothing.      *)
C18_NamedGlyph ==
    [][Step("C")
           => IF last'.args[1] \in DOMAIN special_chars
              THEN /\ Accepted
                   /\ nfrag' = nfrag + 1
                   /\ frag' = special_chars[last'.args[1]]
                   /\ horizontal_increment'
                          = Len(special_chars[last'.args[1]])
              ELSE /\ status' = "ParseError"
                   /\ nfrag' = nfrag]_vars

(* A two-character glyph was emitted and a missing one was refused after   *)
(* it.                                                                     *)
C18_Witness ==
    /\ last = Tok("C", <<"zz">>)
    /\ status = "ParseError"
    /\ frag = "Ao"
    /\ horizontal_increment = 2
    /\ nfrag = 1

(* C19: N(k) is accepted exactly when 33 <= k <= 126 or 161 <= k <= 255    *)
(* and then emits the character whose code point is k; for every other k   *)
(* it raises a semantic failure and emits nothing.                         *)
C19_NumericCharacter ==
    [][Step("N")
           => IF \/ 33 <= last'.args[1] /\ last'.args[1] <= 126
                 \/ 161 <= last'.args[1] /\ last'.args[1] <= 255
              THEN /\ Accepted
                   /\ nfrag' = nfrag + 1
                   /\ Ord(frag') = last'.args[1]
              ELSE /\ status' = "ParseError"
                   /\ nfrag' = nfrag]_vars

(* Both ends of the Latin-1 range were emitted, then 256 was refused. *)
C19_Witness ==
    /\ last = Tok("N", <<256>>)
    /\ status = "ParseError"
    /\ frag = "y:"
    /\ nfrag = 2
    /\ pulled = 3

(* C20 as stated: only the tag devtag:.col 1 arms the column-reset flag,   *)
(* every other value of xX changes no render state; xX emits no text.      *)
C20_OnlyColumnTag ==
    [][Step("xX")
           => /\ Accepted
              /\ frag' = ""
              /\ IF last'.args[1] = "devtag:.col 1\n"
                 THEN reset_column'
                 ELSE UNCHANGED render]_vars

(* C20 amended: the tags devtag:.col 1 and devtag:.eo.h both arm the       *)
(* column-reset flag and change nothing else; every other value of xX      *)
(* changes no render state; xX emits no text.                              *)
C20_ColumnOrHeaderTag ==
    [][Step("xX")
           => /\ Accepted
              /\ frag' = ""
              /\ UNCHANGED <<initial_typesetter, resolution, horiz_motion,
                             vert_motion, page, device_font, font,
                             font_size, horizontal_increment, line>>
              /\ IF last'.args[1] \in {"devtag:.col 1\n", "devtag:.eo.h\n"}
                 THEN reset_column'
                 ELSE UNCHANGED reset_column]_vars

(* The header tag armed the flag, and a foreign tag left it armed. *)
C20_Witness ==
    /\ last = Tok("xX", <<"ps: exec\n">>)
    /\ reset_column
    /\ pulled = 2
    /\ status = "running"

(* C11 as stated: every token of a command listed in arg_types carries     *)
(* exactly the number of arguments arg_types declares for it.              *)
C11_DeclaredCount ==
    \A i \in 1..Len(tokens) :
        tokens[i].cmd \in DOMAIN arg_types
            => Len(tokens[i].args) = arg_types[tokens[i].cmd][2]

(* C11 amended: every token of a command listed in arg_types other than    *)
(* xX carries exactly the declared number of arguments, integers where     *)
(* the declared type is int and strings where it is str; an xX token,      *)
(* declared with count 0, carries one string.                              *)
C11_DeclaredCountButTag ==
    \A i \in 1..Len(tokens) :
        tokens[i].cmd \in DOMAIN arg_types
            => /\ Len(tokens[i].args)
                      = IF tokens[i].cmd = "xX" THEN 1
                        ELSE arg_types[tokens[i].cmd][2]
               /\ \A j \in 1..Len(tokens[i].args) :
                      IF arg_types[tokens[i].cmd][1] = "int"
                      THEN tokens[i].args[j] \in Int
                      ELSE tokens[i].args[j] \in STRING

(* A two-argument token and a tag token were emitted and the sequence     *)
(* ended.                                                                  *)
C11_Witness ==
    /\ outcome = "ended"
    /\ tokens = <<Tok("n", <<40, 0>>), Tok("xX", <<"devtag:.col 1\n">>)>>

(* C12: the generator does not end normally while a command is waiting     *)
(* for arguments (state ARG: a command was recognised and its arguments    *)
(* are not complete, or an x command is not resolved).                     *)
C12_NoNormalEndInArgument == ~(outcome = "ended" /\ state = "ARG")

(* C13: an iteration that finds a comment line in command recognition      *)
(* does not fail on the comment: it does not report # as an unknown        *)
(* command, and it does not fail for want of a character when nothing      *)
(* follows the comment line.                                               *)
C13_CommentsDiscarded ==
    [][(AtCommand /\ buf[1] = "#")
           => /\ message' # "Unknown cmd #"
              /\ LET all == buf \o fd
                     after == IF LINE(all) = NoMatch THEN <<>>
                              ELSE Drop(all, LINE(all))
                 IN after = <<>> => outcome' # "IndexError"]_tokvars

(* C14: the iteration that recognises x X on a terminated line emits the   *)
(* token xX with one argument, the rest of that line after the separator   *)
(* with its newline, whatever the length of that rest.                     *)
C14_TagArgumentIsLineRemainder ==
    [][(/\ AtCommand
        /\ Take(buf, 3) = <<"x", " ", "X">>
        /\ LINE(buf \o fd) # NoMatch)
           => LET tail == Drop(buf \o fd, 3)
                  rest == IF tail[1] = " " THEN Tail(tail) ELSE tail
              IN /\ outcome' = "running"
                 /\ tokens' = Append(tokens,
                                     Tok("xX",
                                         <<Join(Take(rest, LINE(rest)))>>))
      ]_tokvars

(* C15: on every document the tokenizer stops, by exhausting the token     *)
(* sequence or by raising.                                                 *)
C15_Terminates == <>(outcome # "running")

(* C17: each of the two instances reads only the source handed to its      *)
(* constructor, from its start, in order and with nothing missing: what    *)
(* it has read is a prefix of its own source, as when it runs alone.       *)
C17_OwnSourceOnly ==
    \A i \in Instances :
        /\ wrapped[i] \in {0, handed[i]}
        /\ \A k \in 1..Len(received[i]) : received[i][k] = <<handed[i], k>>

----------------------------------------------------------------------------
(* The names hasattr(self, cmd) finds on a TextOutput: the methods of the  *)
(* class and the names bound to them.                                      *)
Handlers == {"t", "h", "H", "noop", "n", "xi", "xF", "md", "DFd", "w", "xt",
             "N", "C", "xT", "xr", "p", "xf", "f", "s", "V", "xX", "xs"}

(* C21: every token the tokenizer emits names a command the renderer has   *)
(* a handler for, so that the renderer's unrecognized-command failure      *)
(* cannot happen on a token sequence of the tokenizer.                     *)
C21_EveryTokenHandled ==
    \A i \in 1..Len(tokens) : tokens[i].cmd \in Handlers

(* The quantum q cannot divide: no set-resolution has been accepted, or    *)
(* the one in force declared it as 0.                                      *)
NoQuantum(q) == q = None \/ q = Some(0)

(* C22: a horizontal motion taken while the horizontal quantum is unset    *)
(* or 0, and a vertical motion taken while the vertical quantum is unset   *)
(* or 0, ends the generator with an exception, hands no fragment to the    *)
(* caller and changes no render state; once the generator has ended this   *)
(* way no further token is pulled and no further fragment is yielded.      *)
C22_MotionWithoutQuantumAborts ==
    [][/\ ((StepH /\ NoQuantum(horiz_motion))
            \/ (Step("V") /\ NoQuantum(vert_motion)))
           => /\ status' \in {"TypeError", "ZeroDivisionError"}
              /\ UNCHANGED <<frag, nfrag>>
              /\ UNCHANGED render
       /\ status \in {"TypeError", "ZeroDivisionError"}
           => UNCHANGED <<pulled, last, frag, nfrag>> /\ UNCHANGED render
      ]_vars

(* A vertical motion failed on a quantum that an accepted set-resolution   *)
(* declared as 0, after text had been emitted.                             *)
C22_Witness ==
    /\ last.cmd = "V"
    /\ vert_motion = Some(0)
    /\ status = "ZeroDivisionError"
    /\ frag \in TextArgs

----------------------------------------------------------------------------
(* The tokenizer with a read that returns the whole source at once: the    *)
(* loop of lines 89-194 as a function of its locals k, with buf holding    *)
(* all the input there is and every further read returning ''.  The run    *)
(* is over when k.outcome is no longer "running".                          *)
Ended(k, e, m) == [k EXCEPT !.outcome = e, !.message = m]

(* grow = True; continue: nothing more can be read, so an empty buf ends   *)
(* the generator at line 93 and any other buf comes back unchanged for     *)
(* ever.                                                                   *)
WholeGrow(k, b) ==
    IF b = <<>> THEN Ended(k, "ended", "") ELSE Ended(k, "looping", "")

(* Lines 191-194. *)
WholeFinish(k, b, st, c, a) ==
    IF st = "CMD"
    THEN [k EXCEPT !.buf = b, !.state = st, !.cmd = "", !.args = <<>>,
                   !.tokens = Append(@, Tok(c, a))]
    ELSE [k EXCEPT !.buf = b, !.state = st, !.cmd = c, !.args = a]

(* Lines 178-189. *)
WholeConsume(k, b, st, c, a) ==
    LET rest == Drop(b, WORD_AND_SPACES(b))
        end == LINE(rest)
    IN  IF c # "xX"
        THEN WholeFinish(k, rest, st, c, a)
        ELSE IF end = NoMatch
        THEN Ended(k, "AttributeError", "NoneType has no attribute end")
        ELSE WholeFinish(k, Drop(rest, end), st, c,
                         Append(a, Join(Take(rest, end))))

(* Lines 153-177, entered with buf = b, cmd = c, args = a. *)
WholeArgument(k, b, c, a) ==
    IF WORD(b) = NoMatch
    THEN WholeGrow(k, b)
    ELSE IF c \in DOMAIN arg_types
    THEN LET validator == arg_types[c][1]
             count == arg_types[c][2]
             word == Take(b, WORD(b))
             a2 == IF validator = "int" THEN Append(a, ToInt(word))
                   ELSE IF validator = "str" THEN Append(a, Join(word))
                   ELSE a
         IN  IF validator = "int" /\ ~IsInt(word)
             THEN Ended(k, "TokenizingError",
                        "Command " \o c
                            \o " takes an integer as its argument")
             ELSE WholeConsume(k, b,
                               IF Complete(a2, count) THEN "CMD" ELSE "ARG",
                               c, a2)
    ELSE IF c = "x"
    THEN LET c2 == c \o b[1]
         IN  WholeConsume(k, b,
                          IF c2 \in DOMAIN arg_types /\ arg_types[c2][2] = 0
                          THEN "CMD" ELSE "ARG",
                          c2, a)
    ELSE Ended(k, "TokenizingError",
               "Argument type not implemented yet for cmd " \o c)

(* yield c, [] in command recognition: lines 120-121, 139-141, 144-146. *)
WholeBare(k, c, b) ==
    [k EXCEPT !.buf = b, !.cmd = "", !.tokens = Append(@, Tok(c, <<>>))]

(* Lines 96-151, then the argument part of the same iteration. *)
WholeCommand(k) ==
    LET b == Uncomment(k.buf)
    IN  IF b = <<>>
        THEN Ended(k, "IndexError", "string index out of range")
        ELSE IF b[1] \in SingleCharCommands
        THEN WholeArgument(k, Drop(b, CHAR_AND_SPACES(b)), b[1], k.args)
        ELSE IF b[1] = "m"
        THEN IF Len(b) < 2
             THEN Ended(k, "IndexError", "string index out of range")
             ELSE IF b[2] \in {"c", "g", "k", "r"}
             THEN WholeArgument(k, Drop(b, WORD_AND_SPACES(b)),
                                "m" \o b[2], k.args)
             ELSE IF b[2] = "d"
             THEN WholeBare(k, "md", Drop(b, WORD_AND_SPACES(b)))
             ELSE Ended(k, "TokenizingError", "Unsupported color type")
        ELSE IF b[1] = "w"
        THEN WholeBare(k, "w", Drop(b, 1))
        ELSE IF b[1] = "D"
        THEN IF Take(b, 3) = <<"D", "F", "d">>
             THEN WholeBare(k, "DFd", Drop(b, 4))
             ELSE Ended(k, "TokenizingError",
                        "Drawing command " \o Join(Take(b, 2))
                            \o " not implemented yet")
        ELSE Ended(k, "TokenizingError", "Unknown cmd " \o b[1])

(* One iteration of the loop: lines 92-93, then the body. *)
WholeIteration(k) ==
    IF k.buf = <<>> THEN Ended(k, "ended", "")
    ELSE IF k.state = "CMD" THEN WholeCommand(k)
    ELSE WholeArgument(k, k.buf, k.cmd, k.args)

(* What the caller of the generator observes: the tokens, and how the      *)
(* sequence ended.                                                         *)
Observed(toks, e, m) == [tokens |-> toks, outcome |-> e, message |-> m]

RECURSIVE WholeRun(_)
WholeRun(k) ==
    IF k.outcome # "running"
    THEN Observed(k.tokens, k.outcome, k.message)
    ELSE WholeRun(WholeIteration(k))

(* The reference tokenizer on the text txt: lines 83-87, then the loop. *)
Reference(txt) ==
    WholeRun([buf |-> txt, state |-> "CMD", cmd |-> "", args |-> <<>>,
              tokens |-> <<>>, outcome |-> "running", message |-> ""])

(* C23: when the buffered tokenizer has stopped, it has yielded the token  *)
(* sequence, and ended or failed with the exception and message, that the  *)
(* tokenizer reading the whole source at once gives on the same source.    *)
C23_WindowIndependent ==
    outcome # "running"
        => Observed(tokens, outcome, message) = Reference(source)

----------------------------------------------------------------------------
(* The class Output, the renderer written as one chain of tests.  Its      *)
(* attributes are the record o; one pass of the for loop of                *)
(* Output.__iter__ over the token tok gives the attributes after it, the   *)
(* text it yields ("" when it yields nothing) and whether the generator    *)
(* goes on, returns or raises.  The assignment after the yield of V is     *)
(* made when the generator is resumed for the next token, before that      *)
(* token is taken.                                                         *)
Returned(o, x, e) == [self |-> o, text |-> x, status |-> e]

(* Output.__init__, but for the source. *)
OutputInit ==
    [initial_typesetter |-> None, resolution |-> None, horiz_motion |-> None,
     vert_motion |-> None, page |-> None, device_font |-> None,
     font |-> None, font_size |-> None, horizontal_increment |-> 0,
     line |-> 0, reset_column |-> FALSE]

OutputIter(o, tok) ==
    LET c == tok.cmd
        a == tok.args
    IN  CASE c = "t" ->
                 Returned([o EXCEPT !.horizontal_increment = 0], a[1],
                          "running")
          [] c \in {"h", "H"} ->
                 IF ModRaises(o.horiz_motion) # "no"
                 THEN Returned(o, "", ModRaises(o.horiz_motion))
                 ELSE IF PyMod(a[1], o.horiz_motion[1]) # 0
                 THEN Returned(o, "", "ParseError")
                 ELSE IF o.reset_column
                 THEN Returned([o EXCEPT !.reset_column = FALSE], "",
                               "running")
                 ELSE Returned(o,
                               Repeat(" ",
                                      PyFloorDiv(a[1], o.horiz_motion[1])
                                          - o.horizontal_increment),
                               "running")
          [] c \in {"n", "xi", "xF", "md", "DFd", "w", "xt"} ->
                 Returned(o, "", "running")
          [] c = "N" ->
                 IF (a[1] > 32 /\ a[1] < 127) \/ (a[1] > 160 /\ a[1] < 256)
                 THEN Returned([o EXCEPT !.horizontal_increment = 1],
                               Chr(a[1]), "running")
                 ELSE Returned([o EXCEPT !.horizontal_increment = 1], "",
                               "ParseError")
          [] c = "C" ->
                 IF a[1] \notin DOMAIN special_chars
                 THEN Returned(o, "", "ParseError")
                 ELSE Returned([o EXCEPT !.horizontal_increment =
                                             Len(special_chars[a[1]])],
                               special_chars[a[1]], "running")
          [] c = "xT" ->
                 IF NotStr(o.initial_typesetter) /\ a[1] = "utf8"
                 THEN Returned([o EXCEPT !.initial_typesetter = Some(a[1])],
                               "", "running")
                 ELSE Returned(o, "", "ParseError")
          [] c = "xr" ->
                 IF NotInt(o.resolution)
                 THEN Returned([o EXCEPT !.resolution = Some(a[1]),
                                         !.horiz_motion = Some(a[2]),
                                         !.vert_motion = Some(a[3]),
                                         !.line = a[3]],
                               "", "running")
                 ELSE Returned(o, "", "ParseError")
          [] c = "p" ->
                 Returned([o EXCEPT !.page = Some(a[1]), !.line = 0], "",
                          "running")
          [] c = "xf" ->
                 IF <<a[1], a[2]>> \notin DOMAIN device_font_map
                 THEN Returned(o, "", "ParseError")
                 ELSE Returned([o EXCEPT !.device_font =
                                    Some(device_font_map[<<a[1], a[2]>>])],
                               "", "running")
          [] c = "f" ->
                 Returned([o EXCEPT !.font = Some(a[1])], "", "running")
          [] c = "s" ->
                 IF ~NotInt(o.font_size) /\ o.font_size # Some(a[1])
                 THEN Returned(o, "", "ParseError")
                 ELSE Returned([o EXCEPT !.font_size = Some(a[1])], "",
                               "running")
          [] c = "V" ->
                 IF ModRaises(o.vert_motion) # "no"
                 THEN Returned(o, "", ModRaises(o.vert_motion))
                 ELSE IF PyMod(a[1], o.vert_motion[1]) # 0
                 THEN Returned(o, "", "ParseError")
                 ELSE Returned([o EXCEPT !.line = a[1]],
                               Repeat("\n",
                                      PyFloorDiv(a[1], o.vert_motion[1])
                                          - PyFloorDiv(o.line,
                                                       o.vert_motion[1])),
                               "running")
          [] c = "xX" ->
                 Returned([o EXCEPT !.reset_column =
                               IF a[1] = "devtag:.col 1\n" THEN TRUE ELSE @],
                          "", "running")
          [] c = "xs" -> Returned(o, "", "stopped")
          [] OTHER -> Returned(o, "", "Exception")

(* The attributes of the TextOutput instance. *)
Self ==
    [initial_typesetter |-> initial_typesetter, resolution |-> resolution,
     horiz_motion |-> horiz_motion, vert_motion |-> vert_motion,
     page |-> page, device_font |-> device_font, font |-> font,
     font_size |-> font_size, horizontal_increment |-> horizontal_increment,
     line |-> line, reset_column |-> reset_column]

(* How a generator stands for its caller: it goes on, it has ended        *)
(* normally, or it has raised.                                             *)
Kind(e) == IF e = "running" THEN "running"
           ELSE IF e \in {"stopped", "exhausted"} THEN "stopped"
           ELSE "failed"

(* C24: the two renderers start with equal attributes, and from equal      *)
(* attributes one token leaves them with equal attributes, makes them      *)
(* yield the same text, and makes both go on, both stop or both fail; so   *)
(* over any token sequence they keep equal render state, produce the same  *)
(* concatenated text and stop or fail on the same token.                   *)
C24_RenderersEquivalent ==
    /\ RendererStart => Self = OutputInit
    /\ [][pulled' = pulled + 1
              => LET r == OutputIter(Self, last')
                 IN  /\ r.self = Self'
                     /\ r.text = IF nfrag' > nfrag THEN frag' ELSE ""
                     /\ Kind(r.status) = Kind(status')]_vars

====
